---- MODULE Spec2Model ----
(***************************************************************************)
(* SSL certificate checker (functions/ssl-checker/main.ts).                *)
(*                                                                         *)
(* One inbound HTTP request is followed from its arrival to the response   *)
(* of the Deno.serve handler.  Every await of the handler and of           *)
(* checkCertificate is a point where the environment (the probed host,     *)
(* the clock) takes a step; the synchronous code between two awaits is one *)
(* action.                                                                 *)
(*                                                                         *)
(* Encoding of JavaScript values:                                          *)
(*   - a value that may be null/undefined is None (<<>>) or Some(v)        *)
(*     (<<v>>);                                                            *)
(*   - the host string is a sequence of one-character strings, so that the *)
(*     regular expression of the handler is computed character by          *)
(*     character;                                                          *)
(*   - an object is a function from its keys; JSON.stringify drops the     *)
(*     keys whose value is undefined.                                      *)
(***************************************************************************)
EXTENDS Integers, Sequences, FiniteSets, TLC

(***************************************************************************)
(* Bounds of the model.                                                    *)
(***************************************************************************)
\* longest host query value enumerated
MaxLen == 2
\* the clock advances in steps of TickMs milliseconds
TickMs == 2500
\* connect/handshake have no timeout in the code; the model lets the clock
\* advance this far while one of them is pending
MaxWaitMs == 2500

(***************************************************************************)
(* Optional values.                                                        *)
(***************************************************************************)
None == <<>>
Some(v) == <<v>>

(***************************************************************************)
(* Program constants.                                                      *)
(***************************************************************************)
ALLOWED_ORIGINS == {"https://hglnd.se"}
FetchTimeoutMs == 5000

(***************************************************************************)
(* Inputs.                                                                 *)
(***************************************************************************)
\* characters of a host value: lower case, upper case, digit, dot, hyphen
\* (the five classes of the handler's pattern) and three outside the pattern
HostChars == {"a", "Z", "0", ".", "-", "_", " ", "<"}

RECURSIVE SeqsUpTo(_, _)
SeqsUpTo(S, n) ==
  IF n = 0 THEN {<<>>}
  ELSE LET shorter == SeqsUpTo(S, n - 1)
       IN  shorter \cup {Append(s, c) : s \in {t \in shorter : Len(t) = n - 1}, c \in S}

\* url.searchParams.get("host"): null, or the (possibly empty) value
HostParams == {None} \cup {Some(h) : h \in SeqsUpTo(HostChars, MaxLen)}

Methods == {"GET", "OPTIONS", "POST", "DELETE"}

\* request.headers.get("Origin"): null, or the header's value
OriginHeaders ==
  {None, Some("https://hglnd.se"), Some("https://evil.example"),
   Some("https://hglnd.se/")}

Requests == [method : Methods, host : HostParams, origin : OriginHeaders]

\* values a failed connectTls/handshake may reject with
ThrownValues ==
  { [isError |-> TRUE,  message |-> "connection refused"],
    [isError |-> TRUE,  message |-> ""],
    [isError |-> FALSE, message |-> "not an Error"] }

\* the leaf certificate the probed host presents in the handshake (what the
\* host sends, whether or not the program reads it): days from now to notAfter
PeerCerts == {None, Some([validToDays |-> 30]), Some([validToDays |-> -3])}

\* what conn.handshake() resolves with
HandshakeInfos ==
  {None} \cup
  {Some([tlsVersion |-> v, alpnProtocol |-> a]) :
      v \in {None, Some("TLSv1.3")}, a \in {None, Some("h2")}}

HttpStatuses == {200, 404}

(***************************************************************************)
(* Pure parts of the handler.                                              *)
(***************************************************************************)
\* x || d on a string that may be null: null and "" are falsy
OrElse(opt, d) == IF opt = None \/ opt = Some("") THEN d ELSE opt[1]

LowerCase ==
  {"a", "b", "c", "d", "e", "f", "g", "h", "i", "j", "k", "l", "m",
   "n", "o", "p", "q", "r", "s", "t", "u", "v", "w", "x", "y", "z"}
UpperCase ==
  {"A", "B", "C", "D", "E", "F", "G", "H", "I", "J", "K", "L", "M",
   "N", "O", "P", "Q", "R", "S", "T", "U", "V", "W", "X", "Y", "Z"}
Digits == {"0", "1", "2", "3", "4", "5", "6", "7", "8", "9"}

\* the character class [a-zA-Z0-9.-]
InHostClass(c) == c \in LowerCase \cup UpperCase \cup Digits \cup {".", "-"}

\* variant of HostMatches: the pattern written with \w, which admits "_"
HostMatchesWordClass(h) ==
  Len(h) >= 1 /\ \A i \in 1..Len(h) : InHostClass(h[i]) \/ h[i] = "_"
\* /^[a-zA-Z0-9.-]+$/.test(h)
HostMatches(h) == Len(h) >= 1 /\ \A i \in 1..Len(h) : InHostClass(h[i])

\* !host, for host = url.searchParams.get("host"): null or the empty string
HostMissing(host) == host = None \/ host = Some(<<>>)

\* variant of IsPreflight: the preflight branch left out
IsPreflightNever(method) == FALSE
\* request.method === "OPTIONS"
IsPreflight(method) == method = "OPTIONS"

\* variant of MethodAllowed: POST let through as well
MethodAllowedGetPost(method) == method \in {"GET", "POST"}
\* the negation of request.method !== "GET"
MethodAllowed(method) == method = "GET"

\* variant of OriginAllowed: any Origin sent is echoed
OriginAllowedAny(origin) == origin # ""
\* ALLOWED_ORIGINS.includes(origin)
OriginAllowed(origin) == origin \in ALLOWED_ORIGINS

\* the corsHeaders object of the handler
CorsHeaders(origin) ==
  LET base == [k \in {"Access-Control-Allow-Methods",
                      "Access-Control-Allow-Headers",
                      "Access-Control-Max-Age"} |->
                 CASE k = "Access-Control-Allow-Methods" -> "GET, OPTIONS"
                   [] k = "Access-Control-Allow-Headers" -> "Content-Type"
                   [] k = "Access-Control-Max-Age" -> "86400"]
  IN  IF OriginAllowed(origin)
      THEN ("Access-Control-Allow-Origin" :> origin) @@ base
      ELSE base

\* JSON.stringify(data): the keys whose value is undefined are dropped
JSONStringify(data) ==
  [k \in {j \in DOMAIN data : data[j] # None} |-> data[k][1]]

\* jsonResponse(data, status, extraHeaders); extraHeaders are spread last
jsonResponse(data, status, extraHeaders) ==
  [status  |-> status,
   body    |-> Some(JSONStringify(data)),
   headers |-> extraHeaders @@ ("Content-Type" :> "application/json")]

\* new Response(null, { headers: corsHeaders }); the status defaults to 200
PreflightResponse(corsHeaders) ==
  [status |-> 200, body |-> None, headers |-> corsHeaders]

\* err instanceof Error ? err.message : "Unknown error"
MessageOf(err) == IF err.isError THEN err.message ELSE "Unknown error"

\* variant of WrapProbeError: the caught value rethrown as it is
WrapProbeErrorRethrow(err) == err
\* the Error thrown by the catch block of checkCertificate
WrapProbeError(err) ==
  [isError |-> TRUE, message |-> "TLS connection failed: " \o MessageOf(err)]

\* the object the handler's catch block serialises
ErrorReport(host, err) ==
  [host |-> Some(host), error |-> Some(MessageOf(err)), status |-> Some("error")]

(***************************************************************************)
(* Pure parts of checkCertificate.                                         *)
(***************************************************************************)
\* variant of ConnAfterClose: the close left out
ConnLeftOpen(c) == c
\* conn.close()
ConnAfterClose(c) == "closed"

\* tlsInfo: set only if (handshake) is truthy
TlsInfo(info) ==
  IF info = None THEN None
  ELSE Some([version  |-> OrElse(info[1].tlsVersion, "Unknown"),
             protocol |-> OrElse(info[1].alpnProtocol, "http/1.1")])

\* certInfo: declared undefined and never assigned, whatever the handshake
\* and the peer certificate are
CertInfo(info, cert) == None

\* variant of FirstFetchMethod: GET tried first
FirstFetchMethodGet == "GET"
\* the method of the first liveness request
FirstFetchMethod == "HEAD"

\* the request the catch block of a failed liveness request issues, if any
FetchAfterFailure(method) == IF method = "HEAD" THEN Some("GET") ELSE None

\* fetch(..., { method, signal: AbortSignal.timeout(5000) }) issued at time t
NewFetch(method, t) ==
  [method |-> method, outcome |-> "pending", status |-> None,
   deadline |-> t + FetchTimeoutMs]

\* variant of AbortDue: the fetch issued without a timeout signal
AbortNever(deadline, t) == FALSE
\* AbortSignal.timeout: the signal fires once the deadline has passed
AbortDue(deadline, t) == t >= deadline

\* new Date().toISOString() at time t: the instant, tagged with its format
ISOString(t) == <<"ISO8601", t>>

\* the object checkCertificate returns
OnlineReport(host, httpStatus, certInfo, tlsInfo, responseTimeMs, t) ==
  [host           |-> Some(host),
   status         |-> Some("online"),
   httpStatus     |-> httpStatus,
   certificate    |-> certInfo,
   tls            |-> tlsInfo,
   responseTimeMs |-> Some(responseTimeMs),
   checkedAt      |-> Some(ISOString(t))]

(***************************************************************************)
(* State.                                                                  *)
(***************************************************************************)
VARIABLES
  request,        \* the inbound request: method, host query value, Origin
  pc,             \* where the handler is: "received", "connecting",
                  \* "handshaking", "fetching", "probe_catch",
                  \* "handler_catch", "handler_return", "done"
  response,       \* None, or Some(the Response the handler returned)
  probeCalls,     \* number of calls of checkCertificate
  conn,           \* the TLS connection of the probe: "none", "open", "closed"
  handshake,      \* None, or Some(what conn.handshake() resolved with)
  peerCert,       \* the leaf certificate the host presented in the handshake
  thrown,         \* None, or Some(the value being thrown)
  now,            \* Date.now(), in ms since the request arrived
  startTime,      \* None, or Some(startTime of checkCertificate)
  responseTimeMs, \* None, or Some(responseTimeMs of checkCertificate)
  tlsInfo,        \* the local tlsInfo of checkCertificate
  fetchLog,       \* the liveness requests issued, in order
  result          \* None, or Some(the object checkCertificate returned)

vars == <<request, pc, response, probeCalls, conn, handshake, peerCert, thrown,
          now, startTime, responseTimeMs, tlsInfo, fetchLog, result>>

probeVars == <<conn, handshake, peerCert, thrown, startTime, responseTimeMs,
               tlsInfo, fetchLog, result>>

Init ==
  /\ request \in Requests
  /\ pc = "received"
  /\ response = None
  /\ probeCalls = 0
  /\ conn = "none"
  /\ handshake = None
  /\ peerCert = None
  /\ thrown = None
  /\ now = 0
  /\ startTime = None
  /\ responseTimeMs = None
  /\ tlsInfo = None
  /\ fetchLog = <<>>
  /\ result = None

\* const origin = request.headers.get("Origin") || ""
Origin == OrElse(request.origin, "")

(***************************************************************************)
(* The handler, from the arrival of the request to its first await.        *)
(***************************************************************************)
Respond(r) ==
  /\ response' = Some(r)
  /\ pc' = "done"

HandleRequest ==
  /\ pc = "received"
  /\ LET corsHeaders == CorsHeaders(Origin)
     IN  IF IsPreflight(request.method) THEN
           /\ Respond(PreflightResponse(corsHeaders))
           /\ UNCHANGED <<probeCalls, startTime>>
         ELSE IF ~MethodAllowed(request.method) THEN
           /\ Respond(jsonResponse([error |-> Some("Method not allowed")],
                                   405, corsHeaders))
           /\ UNCHANGED <<probeCalls, startTime>>
         ELSE IF HostMissing(request.host) THEN
           /\ Respond(jsonResponse([error |-> Some("Missing \"host\" parameter")],
                                   400, corsHeaders))
           /\ UNCHANGED <<probeCalls, startTime>>
         ELSE IF ~HostMatches(request.host[1]) THEN
           /\ Respond(jsonResponse([error |-> Some("Invalid host format")],
                                   400, corsHeaders))
           /\ UNCHANGED <<probeCalls, startTime>>
         ELSE
           \* checkCertificate(host) runs up to await Deno.connectTls(...)
           /\ probeCalls' = probeCalls + 1
           /\ startTime' = Some(now)
           /\ pc' = "connecting"
           /\ UNCHANGED response
  /\ UNCHANGED <<request, now, conn, handshake, peerCert, thrown,
                 responseTimeMs, tlsInfo, fetchLog, result>>

(***************************************************************************)
(* checkCertificate: the TLS connection.                                   *)
(***************************************************************************)
\* await Deno.connectTls(...) resolves
ConnectTlsResolve ==
  /\ pc = "connecting"
  /\ conn' = "open"
  /\ pc' = "handshaking"
  /\ UNCHANGED <<request, response, probeCalls, handshake, peerCert, thrown,
                 now, startTime, responseTimeMs, tlsInfo, fetchLog, result>>

\* await Deno.connectTls(...) rejects: control goes to the catch block
ConnectTlsReject ==
  /\ pc = "connecting"
  /\ \E e \in ThrownValues : thrown' = Some(e)
  /\ pc' = "probe_catch"
  /\ UNCHANGED <<request, response, probeCalls, conn, handshake, peerCert,
                 now, startTime, responseTimeMs, tlsInfo, fetchLog, result>>

\* await conn.handshake() resolves; the code runs on to the first fetch
HandshakeResolve ==
  /\ pc = "handshaking"
  /\ \E info \in HandshakeInfos, cert \in PeerCerts :
       /\ handshake' = Some(info)
       /\ peerCert' = cert
       /\ tlsInfo' = TlsInfo(info)
  /\ conn' = ConnAfterClose(conn)
  /\ responseTimeMs' = Some(now - startTime[1])
  /\ fetchLog' = <<NewFetch(FirstFetchMethod, now)>>
  /\ pc' = "fetching"
  /\ UNCHANGED <<request, response, probeCalls, thrown, now, startTime, result>>

\* await conn.handshake() rejects: control goes to the catch block, past
\* conn.close()
HandshakeReject ==
  /\ pc = "handshaking"
  /\ \E e \in ThrownValues : thrown' = Some(e)
  /\ pc' = "probe_catch"
  /\ UNCHANGED <<request, response, probeCalls, conn, handshake, peerCert,
                 now, startTime, responseTimeMs, tlsInfo, fetchLog, result>>

\* the catch block of checkCertificate
ProbeCatch ==
  /\ pc = "probe_catch"
  /\ thrown' = Some(WrapProbeError(thrown[1]))
  /\ pc' = "handler_catch"
  /\ UNCHANGED <<request, response, probeCalls, conn, handshake, peerCert,
                 now, startTime, responseTimeMs, tlsInfo, fetchLog, result>>

\* the catch block of the handler
HandlerCatch ==
  /\ pc = "handler_catch"
  /\ Respond(jsonResponse(ErrorReport(request.host[1], thrown[1]), 200,
                          CorsHeaders(Origin)))
  /\ UNCHANGED <<request, probeCalls, conn, handshake, peerCert, thrown,
                 now, startTime, responseTimeMs, tlsInfo, fetchLog, result>>

(***************************************************************************)
(* checkCertificate: the liveness check.                                   *)
(***************************************************************************)
Pending == fetchLog[Len(fetchLog)]

Settle(outcome, status) ==
  [fetchLog EXCEPT ![Len(fetchLog)] =
     [@ EXCEPT !.outcome = outcome, !.status = status]]

\* checkCertificate returns: its promise resolves with the report; the
\* handler, suspended at await checkCertificate(host), resumes in a later job
Return(httpStatus) ==
  /\ result' = Some(OnlineReport(request.host[1], httpStatus,
                                 CertInfo(handshake[1], peerCert), tlsInfo,
                                 responseTimeMs[1], now))
  /\ pc' = "handler_return"
  /\ UNCHANGED response

\* the handler resumes with the result and serialises it
HandlerReturn ==
  /\ pc = "handler_return"
  /\ Respond(jsonResponse(result[1], 200, CorsHeaders(Origin)))
  /\ UNCHANGED <<request, probeCalls, now, probeVars>>

\* a liveness request resolves with a response: httpStatus = response.status
FetchResolve ==
  /\ pc = "fetching"
  /\ \E status \in HttpStatuses :
       /\ fetchLog' = Settle("resolved", Some(status))
       /\ Return(Some(status))
  /\ UNCHANGED <<request, probeCalls, conn, handshake, peerCert, thrown,
                 now, startTime, responseTimeMs, tlsInfo>>

\* the catch block of a liveness request: fall back to GET, or give up
Failed(outcome) ==
  LET next == FetchAfterFailure(Pending.method)
  IN  IF next # None
      THEN /\ fetchLog' = Append(Settle(outcome, None), NewFetch(next[1], now))
           /\ UNCHANGED <<pc, response, result>>
      ELSE /\ fetchLog' = Settle(outcome, None)
           /\ Return(None)

\* a liveness request rejects (network error)
FetchReject ==
  /\ pc = "fetching"
  /\ Failed("rejected")
  /\ UNCHANGED <<request, probeCalls, conn, handshake, peerCert, thrown,
                 now, startTime, responseTimeMs, tlsInfo>>

\* the timeout signal of a liveness request fires: the fetch rejects
FetchAbort ==
  /\ pc = "fetching"
  /\ AbortDue(Pending.deadline, now)
  /\ Failed("aborted")
  /\ UNCHANGED <<request, probeCalls, conn, handshake, peerCert, thrown,
                 now, startTime, responseTimeMs, tlsInfo>>

(***************************************************************************)
(* The clock.                                                              *)
(***************************************************************************)
\* time passes while connectTls or the handshake is pending
TickWait ==
  /\ pc \in {"connecting", "handshaking"}
  /\ now < MaxWaitMs
  /\ now' = now + TickMs
  /\ UNCHANGED <<request, pc, response, probeCalls, probeVars>>

\* time passes while a liveness request is pending
TickFetch ==
  /\ pc = "fetching"
  /\ now < Pending.deadline
  /\ now' = now + TickMs
  /\ UNCHANGED <<request, pc, response, probeCalls, probeVars>>

Next ==
  \/ HandleRequest
  \/ ConnectTlsResolve
  \/ ConnectTlsReject
  \/ HandshakeResolve
  \/ HandshakeReject
  \/ ProbeCatch
  \/ HandlerCatch
  \/ HandlerReturn
  \/ FetchResolve
  \/ FetchReject
  \/ FetchAbort
  \/ TickWait
  \/ TickFetch

Spec == Init /\ [][Next]_vars

\* Each continuation of the handler runs once its promise has settled; the
\* clock advances while a liveness request is pending and its timeout signal
\* fires once due.  Nothing obliges the probed host to answer.
FairSpec ==
  /\ Spec
  /\ WF_vars(HandleRequest)
  /\ WF_vars(ProbeCatch)
  /\ WF_vars(HandlerCatch)
  /\ WF_vars(HandlerReturn)
  /\ WF_vars(TickFetch)
  /\ WF_vars(FetchAbort)

(***************************************************************************)
(* Vocabulary of the properties.                                           *)
(***************************************************************************)
Done == pc = "done" /\ response # None
Status == response[1].status
Headers == response[1].headers
HasBody == response[1].body # None
Body == response[1].body[1]

\* the characters the specification allows in a host
SpecHostChars == LowerCase \cup UpperCase \cup Digits \cup {".", "-"}
\* a present host made of one or more of those characters
SpecHostValid(host) ==
  /\ host # None
  /\ host[1] # <<>>
  /\ \A i \in DOMAIN host[1] : host[1][i] \in SpecHostChars

\* no TLS connection and no liveness request was made
NoProbe == probeCalls = 0 /\ conn = "none" /\ fetchLog = <<>>

\* a TLS connect or handshake of the probe has failed
ProbeFailed == thrown # None
\* the handshake of the probe has succeeded
HandshakeDone == handshake # None

IsErrorBody(msg) == HasBody /\ Body = [error |-> msg]

(***************************************************************************)
(* C1.  For a GET request with a present host matching [a-zA-Z0-9.-]+, a   *)
(* failed probe (TLS connect or handshake) is answered: the response has   *)
(* status 200 and a body with status "error", the requested host and a     *)
(* non-empty error string; no other response is ever given for it, and a   *)
(* response is eventually given.                                           *)
(***************************************************************************)
C1_FailureReport ==
  /\ Status = 200
  /\ HasBody
  /\ DOMAIN Body = {"host", "error", "status"}
  /\ Body.status = "error"
  /\ Body.host = request.host[1]
  /\ Body.error # ""

C1_ProbeFailureReported ==
  /\ [](ProbeFailed => /\ request.method = "GET"
                       /\ SpecHostValid(request.host)
                       /\ (response # None => pc = "done" /\ C1_FailureReport))
  /\ (ProbeFailed ~> Done)

\* a failed connect whose error carries an empty message has been reported
C1_Witness ==
  /\ Done
  /\ ProbeFailed
  /\ conn = "none"
  /\ Body.error = "TLS connection failed: "
  /\ Status = 200

(***************************************************************************)
(* C2.  When the handshake succeeds and the host presented a peer          *)
(* certificate, the report has status "online" and carries a certificate   *)
(* record with isValid true exactly when daysRemaining > 0: isValid and    *)
(* daysRemaining > 0 for a certificate within its validity window,         *)
(* ~isValid and daysRemaining <= 0 for an expired one.                     *)
(***************************************************************************)
C2_CertificateReported ==
  (Done /\ HandshakeDone /\ peerCert # None) =>
     /\ Body.status = "online"
     /\ "certificate" \in DOMAIN Body
     /\ Body.certificate.isValid <=> (Body.certificate.daysRemaining > 0)
     /\ Body.certificate.isValid <=> (peerCert[1].validToDays > 0)

(***************************************************************************)
(* C3.  Once the handler has returned its response, no TLS connection the  *)
(* probe opened for the request is still open.                             *)
(***************************************************************************)
C3_ConnectionClosed == Done => conn # "open"

(***************************************************************************)
(* C4 as stated.  For a GET request, a missing host yields 400 with the    *)
(* "Missing" error, and a present host that is not one or more characters  *)
(* of [a-zA-Z0-9.-] yields 400 "Invalid host format"; neither invokes the  *)
(* probe, which is invoked only for a present host matching the set.       *)
(***************************************************************************)
C4_AsStated ==
  /\ (request.method = "GET" /\ ~SpecHostValid(request.host)) =>
       /\ NoProbe
       /\ Done =>
            /\ Status = 400
            /\ request.host = None => IsErrorBody("Missing \"host\" parameter")
            /\ request.host # None => IsErrorBody("Invalid host format")
  /\ ~NoProbe => SpecHostValid(request.host)

(***************************************************************************)
(* C4 amended.  For a GET request, a missing or empty host yields 400 with *)
(* the "Missing" error, and a non-empty host that does not consist solely  *)
(* of characters of [a-zA-Z0-9.-] yields 400 "Invalid host format";        *)
(* neither invokes the probe, which is invoked only for a present host     *)
(* matching the set.                                                       *)
(***************************************************************************)
C4_HostValidation ==
  /\ (request.method = "GET" /\ ~SpecHostValid(request.host)) =>
       /\ NoProbe
       /\ Done =>
            /\ Status = 400
            /\ (request.host = None \/ request.host = Some(<<>>)) =>
                 IsErrorBody("Missing \"host\" parameter")
            /\ (request.host # None /\ request.host # Some(<<>>)) =>
                 IsErrorBody("Invalid host format")
  /\ ~NoProbe => SpecHostValid(request.host)

\* a host with a character outside the set has been rejected
C4_Witness ==
  /\ Done
  /\ request.method = "GET"
  /\ request.host = Some(<<"a", "<">>)
  /\ Status = 400
  /\ NoProbe

(***************************************************************************)
(* C5.  A request whose method is neither GET nor OPTIONS is answered 405  *)
(* with body {"error": "Method not allowed"} whatever its host parameter,  *)
(* and the probe is never invoked for it.                                  *)
(***************************************************************************)
C5_MethodNotAllowed ==
  request.method \notin {"GET", "OPTIONS"} =>
    /\ NoProbe
    /\ Done => Status = 405 /\ IsErrorBody("Method not allowed")

\* a POST with a well-formed host has been answered 405
C5_Witness ==
  /\ Done
  /\ request.method = "POST"
  /\ request.host = Some(<<"a", "Z">>)
  /\ Status = 405

(***************************************************************************)
(* C6.  An OPTIONS request is answered without a body and with             *)
(* Access-Control-Allow-Methods: GET, OPTIONS, whatever the query, and the *)
(* probe is never invoked for it.                                          *)
(***************************************************************************)
C6_Preflight ==
  request.method = "OPTIONS" =>
    /\ NoProbe
    /\ Done =>
         /\ ~HasBody
         /\ "Access-Control-Allow-Methods" \in DOMAIN Headers
         /\ Headers["Access-Control-Allow-Methods"] = "GET, OPTIONS"

\* a preflight carrying a well-formed host has been answered
C6_Witness ==
  /\ Done
  /\ request.method = "OPTIONS"
  /\ SpecHostValid(request.host)
  /\ ~HasBody

(***************************************************************************)
(* C7.  On every response, Access-Control-Allow-Origin is present exactly  *)
(* when the request's Origin header equals an entry of the allow-list, and *)
(* its value is then that Origin.                                          *)
(***************************************************************************)
C7_AllowOrigin ==
  Done =>
    LET listed == request.origin # None /\ request.origin[1] \in ALLOWED_ORIGINS
        present == "Access-Control-Allow-Origin" \in DOMAIN Headers
    IN  /\ present <=> listed
        /\ present => Headers["Access-Control-Allow-Origin"] = request.origin[1]

\* a success report has been sent to a listed origin, with the header
C7_Witness ==
  /\ Done
  /\ HandshakeDone
  /\ request.origin = Some("https://hglnd.se")
  /\ "Access-Control-Allow-Origin" \in DOMAIN Headers

(***************************************************************************)
(* C8.  Liveness requests are issued only after a successful handshake:    *)
(* HEAD first, GET only if HEAD failed, at most one of each.  httpStatus   *)
(* is the status of the first of them that succeeded and is absent if both *)
(* failed; whatever their outcome the probe does not fail and the report   *)
(* has status "online".                                                    *)
(***************************************************************************)
C8_Resolved == {i \in DOMAIN fetchLog : fetchLog[i].outcome = "resolved"}

C8_LivenessCheck ==
  /\ fetchLog # <<>> =>
       /\ HandshakeDone
       /\ Len(fetchLog) <= 2
       /\ fetchLog[1].method = "HEAD"
       /\ Len(fetchLog) = 2 =>
            /\ fetchLog[2].method = "GET"
            /\ fetchLog[1].outcome \in {"rejected", "aborted"}
  /\ HandshakeDone => ~ProbeFailed
  /\ (Done /\ HandshakeDone) =>
       /\ Status = 200
       /\ Body.status = "online"
       /\ fetchLog # <<>>
       /\ \A i \in DOMAIN fetchLog : fetchLog[i].outcome # "pending"
       /\ IF C8_Resolved = {}
          THEN "httpStatus" \notin DOMAIN Body
          ELSE /\ "httpStatus" \in DOMAIN Body
               /\ \E i \in C8_Resolved :
                    /\ \A j \in C8_Resolved : i <= j
                    /\ Body.httpStatus = fetchLog[i].status[1]

\* HEAD failed, GET answered 404, and the report says so
C8_Witness ==
  /\ Done
  /\ Len(fetchLog) = 2
  /\ fetchLog[1].outcome = "rejected"
  /\ fetchLog[2].outcome = "resolved"
  /\ Body.httpStatus = 404
  /\ Body.status = "online"

(***************************************************************************)
(* C9.  Once the handshake data has been captured the handler eventually   *)
(* returns a response, even if the host never answers a liveness request:  *)
(* each of them is ended by its timeout.                                   *)
(***************************************************************************)
C9_HandlerReturns == HandshakeDone ~> Done

\* both liveness requests were ended by their timeout, and the handler
\* has returned
C9_Witness ==
  /\ Done
  /\ Len(fetchLog) = 2
  /\ fetchLog[1].outcome = "aborted"
  /\ fetchLog[2].outcome = "aborted"
  /\ now >= startTime[1] + 2 * FetchTimeoutMs

(***************************************************************************)
(* C10.  A liveness request is issued only after the handshake data has    *)
(* been captured and the TLS connection closed: the connection is never    *)
(* open while a liveness request exists.                                   *)
(***************************************************************************)
C10_FetchAfterClose ==
  fetchLog # <<>> => HandshakeDone /\ conn = "closed"

\* the first liveness request is in flight and the connection is closed
C10_Witness ==
  /\ pc = "fetching"
  /\ Len(fetchLog) = 1
  /\ Pending.outcome = "pending"
  /\ conn = "closed"

====
